---- MODULE Spec2Model ----
(***************************************************************************)
(* Model of lily-bot.py: a Discord bot that polls a YouTube live chat for  *)
(* "!req" messages and keeps a song-request queue.                         *)
(*                                                                         *)
(* The bot runs on one asyncio event loop.  A coroutine runs without       *)
(* interruption until it awaits something that really suspends             *)
(* (channel.send, asyncio.sleep); the googleapiclient calls (.execute())   *)
(* are blocking and do not yield.  Every action below is therefore the     *)
(* code between two suspension points of one command handler or one poll   *)
(* task.  Strings are sequences of one-character strings.                  *)
(***************************************************************************)
EXTENDS Integers, Sequences, FiniteSets, TLC

VARIABLES
    youtube_client,   \* line 28: FALSE = None, TRUE = built by on_ready
    active_streams,   \* line 27: dict channel id -> video id
    song_list,        \* line 31: dict sequence number -> [text, author]
    current_idx,      \* line 32: the append counter
    played_idx,       \* line 33: number of the playing entry, 0 = none
    tasks,            \* the poll tasks created by bot.loop.create_task
    sent,             \* what the last step ended with: the command or task
                      \* that ran, the message it sent, the argument of !delete
    pre,              \* history: the queue as it was when the last step began
    issued            \* history: the numbers handed out by appends so far

vars == <<youtube_client, active_streams, song_list, current_idx,
          played_idx, tasks, sent, pre, issued>>

(***************************************************************************)
(* Bounds of the model.                                                    *)
(***************************************************************************)
MaxTasks == 1      \* poll tasks alive at a time
MaxQueue == 3      \* entries in the queue, those of fetched pages included
MaxPage == 2       \* items in one page of chat

(***************************************************************************)
(* Inputs.                                                                 *)
(***************************************************************************)
Channels == {"c1", "c2"}
\* None and the empty string: both are falsy where the code tests them
NoValue == << >>

(***************************************************************************)
(* Strings: python str values as sequences of characters.                  *)
(***************************************************************************)
\* str.lower() on one character.  A string of the model holds characters up
\* to U+00FF, all that a string of TLA+ can hold.  On these str.lower() works
\* character by character and keeps the length: the 56 capitals (A-Z, and
\* U+00C0-U+00DE without the multiplication sign U+00D7) go to their small
\* letters, every other character to itself.
UpperChars == << "A", "B", "C", "D", "E", "F", "G", "H", "I", "J", "K", "L", "M",
                "N", "O", "P", "Q", "R", "S", "T", "U", "V", "W", "X", "Y", "Z",
                "À", "Á", "Â", "Ã", "Ä", "Å", "Æ", "Ç", "È", "É", "Ê", "Ë", "Ì",
                "Í", "Î", "Ï", "Ð", "Ñ", "Ò", "Ó", "Ô", "Õ", "Ö", "Ø", "Ù", "Ú",
                "Û", "Ü", "Ý", "Þ" >>
LowerChars == << "a", "b", "c", "d", "e", "f", "g", "h", "i", "j", "k", "l", "m",
                "n", "o", "p", "q", "r", "s", "t", "u", "v", "w", "x", "y", "z",
                "à", "á", "â", "ã", "ä", "å", "æ", "ç", "è", "é", "ê", "ë", "ì",
                "í", "î", "ï", "ð", "ñ", "ò", "ó", "ô", "õ", "ö", "ø", "ù", "ú",
                "û", "ü", "ý", "þ" >>
Lower(c) ==
    IF \E i \in DOMAIN UpperChars : UpperChars[i] = c
    THEN LowerChars[CHOOSE i \in DOMAIN UpperChars : UpperChars[i] = c]
    ELSE c
StrLower(s) == [i \in 1..Len(s) |-> Lower(s[i])]
StartsWith(s, p) == Len(s) >= Len(p) /\ SubSeq(s, 1, Len(p)) = p
\* s[n:] of python
SliceFrom(s, n) == IF n >= Len(s) THEN << >> ELSE SubSeq(s, n + 1, Len(s))

\* str.split(sep) for a one-character separator: the list of the pieces
RECURSIVE Split(_, _)
Split(s, sep) ==
    IF \A i \in 1..Len(s) : s[i] # sep
    THEN << s >>
    ELSE LET i == CHOOSE j \in 1..Len(s) :
                     s[j] = sep /\ \A k \in 1..(j - 1) : s[k] # sep
         IN  << SubSeq(s, 1, i - 1) >> \o Split(SliceFrom(s, i), sep)

(***************************************************************************)
(* extract_youtube_id, lines 35-50.                                        *)
(***************************************************************************)
IdChars ==
    {"a","b","c","d","e","f","g","h","i","j","k","l","m","n","o","p","q","r",
     "s","t","u","v","w","x","y","z","A","B","C","D","E","F","G","H","I","J",
     "K","L","M","N","O","P","Q","R","S","T","U","V","W","X","Y","Z","0","1",
     "2","3","4","5","6","7","8","9","_","-"}
IdLen == 11

PatWatch == <<"y","o","u","t","u","b","e",".","c","o","m","/","w","a","t","c","h","?","v","=">>
PatLive == <<"y","o","u","t","u","b","e",".","c","o","m","/","l","i","v","e","/">>
PatShort == <<"y","o","u","t","u",".","b","e","/">>
PatEmbed == <<"y","o","u","t","u","b","e",".","c","o","m","/","e","m","b","e","d","/">>
patterns == << PatWatch, PatLive, PatShort, PatEmbed >>

\* the positions where `core` is followed by IdLen id characters
MatchAt(url, core, i) ==
    /\ i + Len(core) + IdLen - 1 <= Len(url)
    /\ SubSeq(url, i, i + Len(core) - 1) = core
    /\ \A j \in (i + Len(core))..(i + Len(core) + IdLen - 1) : url[j] \in IdChars
Matches(url, core) == {i \in 1..Len(url) : MatchAt(url, core, i)}
\* re.search: group 1 of the leftmost match (the optional scheme and "www."
\* before the core never change which id is captured)
Group1(url, core) ==
    LET i == CHOOSE j \in Matches(url, core) : \A k \in Matches(url, core) : j <= k
    IN  SubSeq(url, i + Len(core), i + Len(core) + IdLen - 1)

RECURSIVE ExtractFrom(_, _)
ExtractFrom(url, n) ==
    IF n > Len(patterns) THEN NoValue
    ELSE IF Matches(url, patterns[n]) # {} THEN Group1(url, patterns[n])
    ELSE ExtractFrom(url, n + 1)
extract_youtube_id(url) == ExtractFrom(url, 1)

Vid1 == <<"a","B","c","_","e","-","g","1","2","3","4">>
Vid2 == <<"Z","y","x","w","v","u","t","s","r","q","p">>
Https == <<"h","t","t","p","s",":","/","/">>
Www == <<"w","w","w",".">>
UrlShort1 == Https \o PatShort \o Vid1
UrlWatch2 == Https \o Www \o PatWatch \o Vid2
UrlBad == <<"b","a","d","-","u","r","l">>
UrlShortId == PatShort \o SubSeq(Vid1, 1, 10)
Urls == {UrlShort1, UrlWatch2, UrlBad, UrlShortId}
\* extract_youtube_id on the URLs tried, worked out once
VideoIdOf == [url \in Urls |-> extract_youtube_id(url)]

\* python dicts as functions
EmptyDict == << >>
DictSet(d, k, v) == [x \in (DOMAIN d) \cup {k} |-> IF x = k THEN v ELSE d[x]]
DictDel(d, k) == [x \in (DOMAIN d) \ {k} |-> d[x]]
DictLen(d) == Cardinality(DOMAIN d)

(***************************************************************************)
(* The song queue: song_list, current_idx, played_idx (lines 31-33).       *)
(***************************************************************************)
\* lines 107 and 119: the "!req" filter and the text kept of the message
ReqMarker == <<"!","r","e","q">>
MarkerLen == 5
IsRequest(message_text) == StartsWith(StrLower(message_text), ReqMarker)
RequestOf(message_text, author) == << SliceFrom(message_text, MarkerLen), author >>

\* mutants of AppendSong: the entry stored before the counter is raised; the
\* counter raised twice
AppendSongOverwrite(sl, ci, entry) ==
    [song_list |-> DictSet(sl, ci, entry), current_idx |-> ci + 1]
AppendSongSkip(sl, ci, entry) ==
    [song_list |-> DictSet(sl, ci + 2, entry), current_idx |-> ci + 2]
\* lines 122-123 and 317-319: current_idx += 1; song_list[current_idx] = entry
AppendSong(sl, ci, entry) ==
    [song_list |-> DictSet(sl, ci + 1, entry), current_idx |-> ci + 1]

\* lines 314-316: the entry a manual add makes of its argument; IndexError
\* (no entry, NoValue here) when the argument holds no "-"
Trakteer == <<"(","T","r","a","k","t","e","e","r",")"," ","-"," ">>
AddEntry(song) ==
    LET parts == Split(song, "-")
    IN  IF Len(parts) < 2 THEN NoValue
        ELSE << Trakteer \o parts[1], parts[2] >>

\* mutants of NextCase: <= for < at line 279; < current_idx - 1 there; the
\* test of line 259 left out
NextCasePastEnd(sl, ci, pi) ==
    IF DictLen(sl) = 0 THEN "QueueEmpty"
    ELSE IF pi = 0 /\ ci >= 1 THEN "First"
    ELSE IF pi <= ci THEN "Move"
    ELSE "AtEnd"
NextCaseShort(sl, ci, pi) ==
    IF DictLen(sl) = 0 THEN "QueueEmpty"
    ELSE IF pi = 0 /\ ci >= 1 THEN "First"
    ELSE IF pi < ci - 1 THEN "Move"
    ELSE "AtEnd"
NextCaseNoEmpty(sl, ci, pi) ==
    IF pi = 0 /\ ci >= 1 THEN "First"
    ELSE IF pi < ci THEN "Move"
    ELSE "AtEnd"
\* lines 259-305: the branch !next takes
NextCase(sl, ci, pi) ==
    IF DictLen(sl) = 0 THEN "QueueEmpty"
    ELSE IF pi = 0 /\ ci >= 1 THEN "First"
    ELSE IF pi < ci THEN "Move"
    ELSE "AtEnd"
\* lines 267 and 281: played_idx after !next
NextPlayed(sl, ci, pi) ==
    CASE NextCase(sl, ci, pi) = "First" -> 1
      [] NextCase(sl, ci, pi) = "Move" -> pi + 1
      [] OTHER -> pi
\* lines 268-298: the fields of the reply read song_list[played_idx] and, when
\* there is a next song, song_list[played_idx + 1]; a missing key is a KeyError
NextReads(sl, ci, pi) ==
    CASE NextCase(sl, ci, pi) = "First" -> {1} \cup (IF ci > 1 THEN {2} ELSE {})
      [] NextCase(sl, ci, pi) = "Move" ->
            {pi + 1} \cup (IF pi + 1 < ci THEN {pi + 2} ELSE {})
      [] OTHER -> {}
NextReply(sl, ci, pi) ==
    IF ~(NextReads(sl, ci, pi) \subseteq DOMAIN sl) THEN "CommandError"
    ELSE CASE NextCase(sl, ci, pi) = "QueueEmpty" -> "QueueEmpty"
           [] NextCase(sl, ci, pi) = "AtEnd" -> "AtEnd"
           [] OTHER -> "NowPlaying"

\* lines 452-454: played_idx after the entry song_id is removed
AdjustPlayed(song_id, pi) == IF song_id < pi THEN pi - 1 ELSE pi

\* mutant of NewPlayedId: the test of line 471 left out
NewPlayedIdFirstOnly(old_id, old_played_id, new_id, new_played_id) ==
    IF old_id < old_played_id /\ new_played_id = 0 THEN new_id
    ELSE new_played_id
\* lines 471-474: new_played_id after the entry old_id got the number new_id
NewPlayedId(old_id, old_played_id, new_id, new_played_id) ==
    IF old_id = old_played_id THEN new_id
    ELSE IF old_id < old_played_id /\ new_played_id = 0 THEN new_id
    ELSE new_played_id

\* lines 466-476: the renumbering loop, from old_id up to last
RECURSIVE Rebuild(_, _, _, _, _)
Rebuild(old_id, last, old_song_list, old_played_id, acc) ==
    IF old_id > last THEN acc
    ELSE IF old_id \in DOMAIN old_song_list
    THEN Rebuild(old_id + 1, last, old_song_list, old_played_id,
                 [song_list |-> DictSet(acc.song_list, acc.new_id,
                                        old_song_list[old_id]),
                  new_played_id |-> NewPlayedId(old_id, old_played_id,
                                                acc.new_id, acc.new_played_id),
                  new_id |-> acc.new_id + 1])
    ELSE Rebuild(old_id + 1, last, old_song_list, old_played_id, acc)

\* mutants of Renumbered: the rebuild left out; range(1, current_idx) for
\* range(1, current_idx + 1) at line 466
RenumberedNot(removed, ci, pi) ==
    [song_list |-> removed, current_idx |-> ci, played_idx |-> pi]
RenumberedShort(removed, ci, pi) ==
    IF DictLen(removed) > 0
    THEN LET r == Rebuild(1, ci - 1, removed, pi,
                          [song_list |-> EmptyDict, new_id |-> 1,
                           new_played_id |-> 0])
         IN  [song_list |-> r.song_list,
              current_idx |-> DictLen(r.song_list),
              played_idx |-> r.new_played_id]
    ELSE [song_list |-> EmptyDict, current_idx |-> 0, played_idx |-> 0]
\* lines 456-484: the queue after song_id has been removed from it
Renumbered(removed, ci, pi) ==
    IF DictLen(removed) > 0
    THEN LET r == Rebuild(1, ci, removed, pi,
                          [song_list |-> EmptyDict, new_id |-> 1,
                           new_played_id |-> 0])
         IN  [song_list |-> r.song_list,
              current_idx |-> DictLen(r.song_list),
              played_idx |-> r.new_played_id]
    ELSE [song_list |-> EmptyDict, current_idx |-> 0, played_idx |-> 0]

\* mutant of DeleteRefusal: the test of line 442 left out
DeleteRefusalUnprotected(sl, ci, pi, song_id) ==
    IF DictLen(sl) = 0 THEN "QueueEmpty"
    ELSE IF song_id < 1 \/ song_id > ci THEN "InvalidId"
    ELSE IF song_id \notin DOMAIN sl THEN "NotFound"
    ELSE ""
\* lines 426-444: the check that refuses !delete, "" when none does
DeleteRefusal(sl, ci, pi, song_id) ==
    IF DictLen(sl) = 0 THEN "QueueEmpty"
    ELSE IF song_id < 1 \/ song_id > ci THEN "InvalidId"
    ELSE IF song_id \notin DOMAIN sl THEN "NotFound"
    ELSE IF song_id = pi THEN "CannotDeleteCurrent"
    ELSE ""

\* lines 422-502: the queue and the reply after !delete song_id
DeleteResult(sl, ci, pi, song_id) ==
    IF DeleteRefusal(sl, ci, pi, song_id) # ""
    THEN [song_list |-> sl, current_idx |-> ci, played_idx |-> pi,
          msg |-> DeleteRefusal(sl, ci, pi, song_id)]
    ELSE LET q == Renumbered(DictDel(sl, song_id), ci, AdjustPlayed(song_id, pi))
         IN  [song_list |-> q.song_list, current_idx |-> q.current_idx,
              played_idx |-> q.played_idx, msg |-> "SongDeleted"]

(***************************************************************************)
(* The upstream chat: what liveChatMessages().list() may return.           *)
(***************************************************************************)
ItemA == [id |-> "m1", text |-> <<"!","r","e","q"," ","A">>, author |-> <<"a","l">>]
ItemB == [id |-> "m2", text |-> <<"!","R","E","Q"," ","B">>, author |-> <<"b","o">>]
ItemHi == [id |-> "m3", text |-> <<"h","i">>, author |-> <<"c","y">>]
ChatItems == {ItemA, ItemB, ItemHi}
PagesOf(items, maxPage) == UNION {[1..n -> items] : n \in 0..maxPage}

\* the arguments tried for !add
AddArgs == { <<"S","-","N">>, <<"S","N">>, <<"S","-","N","-","X">> }

\* the for loop without the test of lines 96-98: an item is handled again
\* each time a page holds it
RECURSIVE ProcessItemsNoSkip(_, _)
ProcessItemsNoSkip(items, processed_messages) ==
    IF items = << >>
    THEN [hit |-> FALSE, items |-> << >>,
          processed_messages |-> processed_messages, entry |-> NoValue]
    ELSE LET item == Head(items)
         IN  IF ~IsRequest(item.text)
             THEN ProcessItemsNoSkip(Tail(items), processed_messages \cup {item.id})
             ELSE [hit |-> TRUE, items |-> Tail(items),
                   processed_messages |-> processed_messages \cup {item.id},
                   entry |-> RequestOf(item.text, item.author)]

\* lines 93-125: the for loop over the items of a page, up to the first
\* item that is appended (the loop suspends in the send after it) or to the
\* end of the page
RECURSIVE ProcessItems(_, _)
ProcessItems(items, processed_messages) ==
    IF items = << >>
    THEN [hit |-> FALSE, items |-> << >>,
          processed_messages |-> processed_messages, entry |-> NoValue]
    ELSE LET item == Head(items)
         IN  IF item.id \in processed_messages
             THEN ProcessItems(Tail(items), processed_messages)
             ELSE IF ~IsRequest(item.text)
             THEN ProcessItems(Tail(items), processed_messages \cup {item.id})
             ELSE [hit |-> TRUE, items |-> Tail(items),
                   processed_messages |-> processed_messages \cup {item.id},
                   entry |-> RequestOf(item.text, item.author)]

\* line 86: the condition of the poll loop
StreamLive(streams, ch, video_id) ==
    ch \in DOMAIN streams /\ streams[ch] = video_id

\* lines 138-139: the registry after a poll task's clean-up
CleanedUp(streams, ch) == IF ch \in DOMAIN streams THEN DictDel(streams, ch) ELSE streams

(***************************************************************************)
(* The state after the module is loaded, lines 24-33.                      *)
(***************************************************************************)
Init ==
    /\ youtube_client = FALSE
    /\ active_streams = EmptyDict
    /\ song_list = EmptyDict
    /\ current_idx = 0
    /\ played_idx = 0
    /\ tasks = << >>
    /\ sent = [cmd |-> "", msg |-> "", arg |-> 0]
    /\ pre = [song_list |-> EmptyDict, current_idx |-> 0, played_idx |-> 0]
    /\ issued = {}

Snapshot == [song_list |-> song_list, current_idx |-> current_idx,
             played_idx |-> played_idx]
\* a step ends in a send (ctx.send, channel.send) or in the sleep of the
\* poll loop
Say(cmd, msg, arg) == sent' = [cmd |-> cmd, msg |-> msg, arg |-> arg]
\* the bounds of a specification, on the state a step leaves: the poll
\* tasks alive, and the entries of the queue with those that fetched pages
\* still hold
RECURSIVE Pending(_, _)
Pending(ts, n) == IF n = 0 THEN 0 ELSE Len(ts[n].items) + Pending(ts, n - 1)
Within(maxTasks, maxQueue) ==
    /\ Len(tasks') <= maxTasks
    /\ current_idx' + Pending(tasks', Len(tasks')) <= maxQueue
QueueUnchanged == UNCHANGED <<song_list, current_idx, played_idx, issued>>

\* lines 143-153, run at every connection and reconnection of the bot.  The
\* bot does not start without YOUTUBE_API_KEY (lines 578-583), so on_ready
\* always builds the client.
on_ready ==
    /\ youtube_client' = TRUE
    /\ pre' = Snapshot
    /\ Say("on_ready", "Ready", 0)
    /\ QueueUnchanged
    /\ UNCHANGED <<active_streams, tasks>>

\* start_live_chat with the reset of lines 179-182 in force: a new session
\* empties the queue
start_live_chat_Reset(ch, url) ==
    /\ pre' = Snapshot
    /\ UNCHANGED <<youtube_client, issued>>
    /\ IF ~youtube_client
       THEN /\ Say("start_live_chat", "NotConfigured", 0)
            /\ UNCHANGED <<active_streams, tasks, song_list, current_idx, played_idx>>
       ELSE IF VideoIdOf[url] = NoValue
       THEN /\ Say("start_live_chat", "InvalidUrl", 0)
            /\ UNCHANGED <<active_streams, tasks, song_list, current_idx, played_idx>>
       ELSE IF ch \in DOMAIN active_streams
       THEN /\ Say("start_live_chat", "AlreadyMonitoring", 0)
            /\ UNCHANGED <<active_streams, tasks, song_list, current_idx, played_idx>>
       ELSE /\ song_list' = EmptyDict
            /\ current_idx' = 0
            /\ played_idx' = 0
            /\ active_streams' = DictSet(active_streams, ch, VideoIdOf[url])
            /\ tasks' = Append(tasks, [ch |-> ch,
                                        video_id |-> VideoIdOf[url],
                                        pc |-> "created",
                                        processed_messages |-> {},
                                        items |-> << >>,
                                        cancelled |-> FALSE])
            /\ Say("start_live_chat", "Starting", 0)

\* start_live_chat without the test of line 175: a start on a channel that
\* has a session replaces it
start_live_chat_Replace(ch, url) ==
    /\ pre' = Snapshot
    /\ QueueUnchanged
    /\ UNCHANGED <<youtube_client>>
    /\ IF ~youtube_client
       THEN Say("start_live_chat", "NotConfigured", 0) /\ UNCHANGED <<active_streams, tasks>>
       ELSE IF VideoIdOf[url] = NoValue
       THEN Say("start_live_chat", "InvalidUrl", 0) /\ UNCHANGED <<active_streams, tasks>>
       ELSE /\ active_streams' = DictSet(active_streams, ch, VideoIdOf[url])
            /\ tasks' = Append(tasks, [ch |-> ch,
                                        video_id |-> VideoIdOf[url],
                                        pc |-> "created",
                                        processed_messages |-> {},
                                        items |-> << >>,
                                        cancelled |-> FALSE])
            /\ Say("start_live_chat", "Starting", 0)
\* lines 160-190
start_live_chat(ch, url) ==
    /\ pre' = Snapshot
    /\ QueueUnchanged
    /\ UNCHANGED <<youtube_client>>
    /\ IF ~youtube_client
       THEN Say("start_live_chat", "NotConfigured", 0) /\ UNCHANGED <<active_streams, tasks>>
       ELSE IF VideoIdOf[url] = NoValue
       THEN Say("start_live_chat", "InvalidUrl", 0) /\ UNCHANGED <<active_streams, tasks>>
       ELSE IF ch \in DOMAIN active_streams
       THEN Say("start_live_chat", "AlreadyMonitoring", 0) /\ UNCHANGED <<active_streams, tasks>>
       ELSE /\ active_streams' = DictSet(active_streams, ch, VideoIdOf[url])
            /\ tasks' = Append(tasks, [ch |-> ch,
                                        video_id |-> VideoIdOf[url],
                                        pc |-> "created",
                                        processed_messages |-> {},
                                        items |-> << >>,
                                        cancelled |-> FALSE])
            /\ Say("start_live_chat", "Starting", 0)

\* history: the poll tasks as they are once !stop_live_chat has removed the
\* session of ch; the tasks that served it are marked
Cancelled(ts, streams, ch) ==
    [t \in DOMAIN ts |->
        IF StreamLive(streams, ts[t].ch, ts[t].video_id) /\ ts[t].ch = ch
        THEN [ts[t] EXCEPT !.cancelled = TRUE]
        ELSE ts[t]]

\* lines 192-201
stop_live_chat(ch) ==
    /\ pre' = Snapshot
    /\ QueueUnchanged
    /\ UNCHANGED <<youtube_client>>
    /\ IF ch \notin DOMAIN active_streams
       THEN /\ Say("stop_live_chat", "NoActiveStream", 0)
            /\ UNCHANGED <<active_streams, tasks>>
       ELSE /\ active_streams' = DictDel(active_streams, ch)
            /\ tasks' = Cancelled(tasks, active_streams, ch)
            /\ Say("stop_live_chat", "Stopped", 0)

\* add with the counter raised (line 317) before the argument is split
\* (lines 315-316): a malformed argument leaves the counter one too high
add_CountFirst(ch, song) ==
    /\ pre' = Snapshot
    /\ UNCHANGED <<youtube_client, active_streams, tasks, played_idx>>
    /\ IF ch \notin DOMAIN active_streams
       THEN /\ Say("add", "NoActiveStream", 0)
            /\ UNCHANGED <<song_list, current_idx, issued>>
       ELSE IF AddEntry(song) = NoValue
       THEN /\ Say("add", "CommandError", 0)
            /\ current_idx' = current_idx + 1
            /\ UNCHANGED <<song_list, issued>>
       ELSE /\ song_list' = AppendSong(song_list, current_idx, AddEntry(song)).song_list
            /\ current_idx' = AppendSong(song_list, current_idx, AddEntry(song)).current_idx
            /\ issued' = issued \cup {current_idx'}
            /\ Say("add", "TrakteerEmbed", 0)

\* lines 309-328.  A missing "-" raises IndexError at line 316, before the
\* queue is touched; on_command_error (lines 566-574) reports it.
add(ch, song) ==
    /\ pre' = Snapshot
    /\ UNCHANGED <<youtube_client, active_streams, tasks, played_idx>>
    /\ IF ch \notin DOMAIN active_streams
       THEN /\ Say("add", "NoActiveStream", 0)
            /\ UNCHANGED <<song_list, current_idx, issued>>
       ELSE IF AddEntry(song) = NoValue
       THEN /\ Say("add", "CommandError", 0)
            /\ UNCHANGED <<song_list, current_idx, issued>>
       ELSE /\ song_list' = AppendSong(song_list, current_idx, AddEntry(song)).song_list
            /\ current_idx' = AppendSong(song_list, current_idx, AddEntry(song)).current_idx
            /\ issued' = issued \cup {current_idx'}
            /\ Say("add", "TrakteerEmbed", 0)

\* lines 248-307
next(ch) ==
    /\ pre' = Snapshot
    /\ played_idx' = NextPlayed(song_list, current_idx, played_idx)
    /\ Say("next", NextReply(song_list, current_idx, played_idx), 0)
    /\ UNCHANGED <<youtube_client, active_streams, tasks, song_list,
                   current_idx, issued>>

\* lines 421-502
delete_song(ch, song_id) ==
    LET r == DeleteResult(song_list, current_idx, played_idx, song_id)
    IN  /\ pre' = Snapshot
        /\ song_list' = r.song_list
        /\ current_idx' = r.current_idx
        /\ played_idx' = r.played_idx
        /\ Say("delete", r.msg, song_id)
        /\ UNCHANGED <<youtube_client, active_streams, tasks, issued>>

(***************************************************************************)
(* The poll task fetch_live_chat_messages, lines 70-141, one action per    *)
(* stretch of code between two suspensions.  pc is where the task waits:   *)
(*   created   scheduled by create_task, not yet run                       *)
(*   started   in the send of line 80                                      *)
(*   sending   in the send of line 125, inside the for loop                *)
(*   sleeping  in the sleep of line 131                                    *)
(*   erroring  in the send of line 134, inside the except clause           *)
(* A task that has returned (at line 78, or through the clean-up of lines  *)
(* 137-141) is no longer in tasks.                                         *)
(* cancelled is history, not state of the program: it tells that           *)
(* !stop_live_chat has removed the session the task was started for.       *)
(* The page token and the polling interval only travel between the task    *)
(* and the upstream API, whose answer is any page: they are not kept.      *)
(***************************************************************************)
Returned(t) == SubSeq(tasks, 1, t - 1) \o SubSeq(tasks, t + 1, Len(tasks))
SetTask(t, pc, processed_messages, items) ==
    tasks' = [tasks EXCEPT ![t] = [@ EXCEPT !.pc = pc,
                                           !.processed_messages = processed_messages,
                                           !.items = items]]

\* lines 74-80: get_live_chat_id answers live_chat_id (FALSE: None)
task_begin(t, live_chat_id) ==
    /\ tasks[t].pc = "created"
    /\ pre' = Snapshot
    /\ QueueUnchanged
    /\ UNCHANGED <<youtube_client, active_streams>>
    /\ IF ~live_chat_id
       THEN tasks' = Returned(t) /\ Say("poll", "NoLiveChat", 0)
       ELSE SetTask(t, "started", {}, << >>) /\ Say("poll", "Monitoring", 0)

\* lines 93-131: the for loop from `items` on, then the sleep
RunItems(t, items) ==
    LET r == ProcessItems(items, tasks[t].processed_messages)
    IN  IF r.hit
        THEN /\ song_list' = AppendSong(song_list, current_idx, r.entry).song_list
             /\ current_idx' = AppendSong(song_list, current_idx, r.entry).current_idx
             /\ issued' = issued \cup {current_idx'}
             /\ SetTask(t, "sending", r.processed_messages, r.items)
             /\ Say("poll", "RequestEmbed", 0)
        ELSE /\ UNCHANGED <<song_list, current_idx, issued>>
             /\ SetTask(t, "sleeping", r.processed_messages, << >>)
             /\ Say("poll", "Sleep", 0)

\* lines 137-141: the clean-up once the loop is left
Cleanup(t) ==
    /\ active_streams' = CleanedUp(active_streams, tasks[t].ch)
    /\ tasks' = Returned(t)
    /\ Say("poll", "StoppedMonitoring", 0)
    /\ QueueUnchanged

\* lines 86-131, entered from line 80 or from the sleep: the loop condition,
\* then the fetch, which raises (error) or answers page
task_poll(t, error, page) ==
    /\ tasks[t].pc \in {"started", "sleeping"}
    /\ pre' = Snapshot
    /\ UNCHANGED <<youtube_client>>
    /\ IF ~StreamLive(active_streams, tasks[t].ch, tasks[t].video_id)
       THEN Cleanup(t)
       ELSE IF error
       THEN /\ SetTask(t, "erroring", tasks[t].processed_messages, << >>)
            /\ Say("poll", "FetchError", 0)
            /\ QueueUnchanged
            /\ UNCHANGED <<active_streams, played_idx>>
       ELSE /\ RunItems(t, page)
            /\ UNCHANGED <<active_streams, played_idx>>

\* lines 93-131, resumed after the send of line 125
task_resume(t) ==
    /\ tasks[t].pc = "sending"
    /\ pre' = Snapshot
    /\ RunItems(t, tasks[t].items)
    /\ UNCHANGED <<youtube_client, active_streams, played_idx>>

\* lines 135-141, resumed after the send of line 134
task_fail(t) ==
    /\ tasks[t].pc = "erroring"
    /\ pre' = Snapshot
    /\ Cleanup(t)
    /\ UNCHANGED <<youtube_client>>

\* the steps of the bot in the channels chs, with the URLs and the pages of
\* chat given, within the bounds
Step(chs, urls, pages, maxTasks, maxQueue) ==
    \/ on_ready
    \/ \E ch \in chs, url \in urls :
          start_live_chat(ch, url) /\ Within(maxTasks, maxQueue)
    \/ \E ch \in chs : stop_live_chat(ch)
    \/ \E ch \in chs, song \in AddArgs :
          add(ch, song) /\ Within(maxTasks, maxQueue)
    \/ \E ch \in chs : next(ch)
    \/ \E ch \in chs, song_id \in 0..(current_idx + 1) : delete_song(ch, song_id)
    \/ \E t \in DOMAIN tasks, live_chat_id \in BOOLEAN : task_begin(t, live_chat_id)
    \/ \E t \in DOMAIN tasks, page \in pages :
          task_poll(t, FALSE, page) /\ Within(maxTasks, maxQueue)
    \/ \E t \in DOMAIN tasks : task_poll(t, TRUE, << >>)
    \/ \E t \in DOMAIN tasks : task_resume(t)
    \/ \E t \in DOMAIN tasks : task_fail(t)

(***************************************************************************)
(* Spec: the queue under every interleaving of the commands with the poll  *)
(* task of one channel.  song_list, current_idx and played_idx are globals *)
(* of the module, so the channel a command comes from decides nothing      *)
(* about the queue but whether !add is accepted.                           *)
(***************************************************************************)
QueueChannels == {"c1"}
QueueUrls == {UrlShort1, UrlBad}
QueuePages == PagesOf(ChatItems, MaxPage)
Next == Step(QueueChannels, QueueUrls, QueuePages, MaxTasks, MaxQueue)

Spec == Init /\ [][Next]_vars

(***************************************************************************)
(* SessionSpec: the sessions of one channel, with two videos and up to two *)
(* poll tasks alive at a time (the task of a stopped session beside the    *)
(* task of the session started after it), over a short queue.              *)
(***************************************************************************)
SessionTasks == 2      \* poll tasks alive at a time
SessionQueue == 1      \* entries in the queue, those of fetched pages included
SessionPage == 1       \* items in one page of chat
SessionUrls == {UrlShort1, UrlWatch2}
SessionPages == PagesOf({ItemA}, SessionPage)
SessionNext ==
    Step(QueueChannels, SessionUrls, SessionPages, SessionTasks, SessionQueue)

SessionSpec == Init /\ [][SessionNext]_vars

(***************************************************************************)
(* ScopeSpec: the commands and the sessions of two channels, each with its *)
(* poll task, on one video.                                                *)
(***************************************************************************)
ScopeUrls == {UrlShort1}
ScopeNext == Step(Channels, ScopeUrls, SessionPages, SessionTasks, SessionQueue)

ScopeSpec == Init /\ [][ScopeNext]_vars

(***************************************************************************)
(* Properties.  Every state of Spec is a point where another command or    *)
(* poll task can run: an action is the code between two suspensions.  pre  *)
(* is the queue before the last step and sent tells which step it was, so  *)
(* a property of one operation reads as an invariant.                      *)
(***************************************************************************)
N == DictLen(song_list)
PreN == DictLen(pre.song_list)
Deleted == sent.cmd = "delete" /\ sent.msg = "SongDeleted"
Appended == sent.msg \in {"RequestEmbed", "TrakteerEmbed"}
Advanced == sent.cmd = "next"
QueueAsBefore ==
    /\ song_list = pre.song_list
    /\ current_idx = pre.current_idx
    /\ played_idx = pre.played_idx
\* the entries a poll task or !add can make of the inputs tried
PollEntries == {RequestOf(item.text, item.author) : item \in ChatItems}
AddEntries == {AddEntry(song) : song \in AddArgs} \ {NoValue}

\* C1: at every point where another command or poll task can run, the
\* sequence numbers of the queue are exactly 1..N and the append counter is N.
C1_Contiguous ==
    /\ DOMAIN song_list = 1..N
    /\ current_idx = N
\* a delete from the middle of the queue has renumbered it while a poll task
\* is suspended inside its page
C1_Witness ==
    /\ Deleted
    /\ sent.arg <= N
    /\ N >= 2
    /\ \E t \in DOMAIN tasks : tasks[t].pc = "sending"

\* C2: in every reachable state 0 <= playedIndex <= N.
C2_PlayedInRange == 0 <= played_idx /\ played_idx <= N
\* a delete has left the last entry as the playing one
C2_Witness == Deleted /\ played_idx = N /\ N >= 2

\* C3 (the claim as stated): a successful delete(k) with 1 <= k < playedIndex
\* lowers playedIndex by exactly 1, so that it designates the same Request as
\* before the delete.
C3_DeleteBelowPlayed ==
    (Deleted /\ sent.arg < pre.played_idx) =>
        /\ played_idx = pre.played_idx - 1
        /\ played_idx \in DOMAIN song_list
        /\ song_list[played_idx] = pre.song_list[pre.played_idx]

\* C4: after a successful delete(k) on N entries the queue holds the former
\* entries without the one at k, numbered 1..N-1 in the same order: those
\* below k keep their number, those above k move down by one.
C4_DeleteCompacts ==
    Deleted =>
        /\ sent.arg \in DOMAIN pre.song_list
        /\ DOMAIN song_list = 1..(PreN - 1)
        /\ \A i \in DOMAIN song_list :
              song_list[i] = pre.song_list[IF i < sent.arg THEN i ELSE i + 1]
\* a delete from the middle of three different entries
C4_Witness ==
    /\ Deleted
    /\ sent.arg = 2
    /\ N = 2
    /\ song_list[1] # song_list[2]
    /\ pre.song_list[2] \notin {song_list[1], song_list[2]}

\* C5 (the claim as stated): in every state, delete called with the number
\* playedIndex fails with ProtectedEntry (the reply "Cannot delete the
\* currently playing song") and leaves the queue unchanged.
C5_AlwaysProtectedEntry ==
    (sent.cmd = "delete" /\ sent.arg = pre.played_idx) =>
        /\ sent.msg = "CannotDeleteCurrent"
        /\ QueueAsBefore
\* C5 (amended): delete called with the number playedIndex always fails and
\* leaves the entries, the counter and playedIndex unchanged; it fails with
\* ProtectedEntry when playedIndex >= 1, and when playedIndex = 0 with the
\* out-of-range reply, or the empty-queue reply when the queue is empty.  So
\* no delete removes the playing Request: after a successful delete it is
\* still in the queue, under its number or the number below.
C5_PlayingEntryProtected ==
    /\ (sent.cmd = "delete" /\ sent.arg = pre.played_idx) =>
          /\ QueueAsBefore
          /\ pre.played_idx >= 1 => sent.msg = "CannotDeleteCurrent"
          /\ pre.played_idx = 0 =>
                sent.msg = (IF PreN = 0 THEN "QueueEmpty" ELSE "InvalidId")
    /\ (Deleted /\ pre.played_idx >= 1) =>
          /\ sent.arg # pre.played_idx
          /\ LET now == IF sent.arg < pre.played_idx
                         THEN pre.played_idx - 1 ELSE pre.played_idx
             IN  /\ now \in DOMAIN song_list
                 /\ song_list[now] = pre.song_list[pre.played_idx]
\* the delete of the playing entry of a queue of several has been refused
C5_Witness ==
    /\ sent.cmd = "delete"
    /\ sent.msg = "CannotDeleteCurrent"
    /\ sent.arg = played_idx
    /\ N >= 2

\* C6: a successful delete(k) with k > playedIndex, playedIndex = 0
\* included, leaves playedIndex unchanged.
C6_DeleteAbovePlayed ==
    (Deleted /\ sent.arg > pre.played_idx) => played_idx = pre.played_idx
\* an entry after the playing one has been deleted, the playing one being
\* the second
C6_Witness == Deleted /\ sent.arg > pre.played_idx /\ pre.played_idx = 2

\* C7: an append, by a poll task or by !add, on a queue of N entries stores
\* the new Request under N+1 and leaves the entries there were and playedIndex
\* unchanged.
C7_AppendAtEnd ==
    Appended =>
        /\ DOMAIN song_list = DOMAIN pre.song_list \cup {PreN + 1}
        /\ \A k \in DOMAIN pre.song_list : song_list[k] = pre.song_list[k]
        /\ song_list[PreN + 1] \in
              (IF sent.cmd = "add" THEN AddEntries ELSE PollEntries)
        /\ current_idx = PreN + 1
        /\ PreN + 1 \in issued
        /\ played_idx = pre.played_idx
\* !add has appended after a request of the chat, with that one playing
C7_Witness ==
    /\ Appended
    /\ sent.cmd = "add"
    /\ PreN >= 1
    /\ song_list[1] \in PollEntries
    /\ played_idx = 1

\* C8 (the claim as stated): a sequence number once assigned by an append is
\* never assigned by a later append to another Request.
C8_NeverReused ==
    [][(Appended' /\ current_idx' # current_idx) => current_idx' \notin issued]_vars
\* C8 (amended): sequence numbers are assigned in append order: an append
\* gets the number one above the highest number a Request of the queue holds,
\* so a number is never held by two Requests of the queue; a number is
\* assigned again only when deletes have shrunk the queue below the highest
\* number issued so far.
C8_AssignedInOrder ==
    [][(Appended' /\ current_idx' # current_idx) =>
          /\ \A k \in DOMAIN song_list : k < current_idx'
          /\ \A k \in 1..(current_idx' - 1) : k \in DOMAIN song_list
          /\ current_idx' \in issued'
          /\ current_idx' \in issued => \E n \in issued : n > N]_vars
\* an append has been given a number that had been issued and deleted before
C8_Witness == Appended /\ \E n \in issued : n > current_idx

\* C9: advance in a state with playedIndex < N raises playedIndex by exactly
\* 1 and changes neither the entries nor the counter.
C9_AdvanceMoves ==
    (Advanced /\ pre.played_idx < PreN) =>
        /\ played_idx = pre.played_idx + 1
        /\ song_list = pre.song_list
        /\ current_idx = pre.current_idx
        /\ sent.msg = "NowPlaying"
\* three advances have walked a queue of three to its end
C9_Witness == Advanced /\ sent.msg = "NowPlaying" /\ played_idx = 3 /\ N = 3

\* C10: advance in a state with playedIndex = N changes nothing of the queue:
\* on an empty queue it reports EmptyQueue and playedIndex stays 0, on a
\* non-empty one it reports AtEnd; and playedIndex is 0 whenever the queue is
\* empty.
C10_AdvanceAtEnd ==
    /\ (Advanced /\ pre.played_idx = PreN) =>
          /\ QueueAsBefore
          /\ sent.msg = (IF PreN = 0 THEN "QueueEmpty" ELSE "AtEnd")
    /\ N = 0 => played_idx = 0
\* advance has been refused at the end of a queue of several
C10_Witness == Advanced /\ sent.msg = "AtEnd" /\ played_idx = N /\ N >= 2
\* advance has been refused on a queue emptied by deletes
C10_WitnessEmpty ==
    Advanced /\ sent.msg = "QueueEmpty" /\ N = 0 /\ issued # {}

(***************************************************************************)
(* Properties of the sessions.  A property of one command is an action     *)
(* property: it reads the step through the action that models the command. *)
(***************************************************************************)
SessionUnchanged == UNCHANGED <<active_streams, tasks>>

\* C11: the registry holds at most one session per channel: start on a
\* channel that has a session is refused ("Already monitoring"), creates no
\* poll task and leaves the registry as it was, the channel still mapped to
\* the video of the first start.
C11_OneSessionPerScope ==
    [][\A ch \in Channels, url \in SessionUrls :
          (ch \in DOMAIN active_streams /\ start_live_chat(ch, url)) =>
              /\ sent'.msg = "AlreadyMonitoring"
              /\ SessionUnchanged
              /\ active_streams'[ch] = active_streams[ch]]_vars
\* a start has been refused in a channel that has the session of the second
\* video, whose poll task is between two fetches
C11_Witness ==
    /\ sent.cmd = "start_live_chat"
    /\ sent.msg = "AlreadyMonitoring"
    /\ DOMAIN active_streams = {"c1"}
    /\ active_streams["c1"] = Vid2
    /\ \E t \in DOMAIN tasks : tasks[t].ch = "c1" /\ tasks[t].pc = "sleeping"

\* a step of poll task t that goes through items of a page
PollStep(t) ==
    \/ \E page \in QueuePages : task_poll(t, FALSE, page)
    \/ task_resume(t)

\* C12: within one poll session each chat item id causes at most one append:
\* a poll task appends the request of an item only if the item's id is not
\* among the ids the task has handled, the id is among them from then on, and
\* the ids handled are never forgotten while the task lives.  So an id that
\* comes back in a later fetch, or twice in one page, is appended once.
C12_OneAppendPerItem ==
    [][\A t \in DOMAIN tasks :
          (PollStep(t) /\ Len(tasks') = Len(tasks)) =>
              /\ tasks[t].processed_messages \subseteq tasks'[t].processed_messages
              /\ current_idx' \in {current_idx, current_idx + 1}
              /\ current_idx' = current_idx + 1 =>
                    \E item \in ChatItems :
                        /\ song_list'[current_idx'] = RequestOf(item.text, item.author)
                        /\ item.id \notin tasks[t].processed_messages
                        /\ item.id \in tasks'[t].processed_messages]_vars
\* a poll task has appended a request and is suspended inside a page whose
\* next item it has already handled
C12_Witness ==
    /\ sent.msg = "RequestEmbed"
    /\ \E t \in DOMAIN tasks :
          /\ tasks[t].pc = "sending"
          /\ tasks[t].items # << >>
          /\ Head(tasks[t].items).id \in tasks[t].processed_messages
          /\ IsRequest(Head(tasks[t].items).text)

\* the poll tasks alive that serve the session the registry holds for ch
ServingTasks(ch) ==
    {t \in DOMAIN tasks : StreamLive(active_streams, tasks[t].ch, tasks[t].video_id)
                            /\ tasks[t].ch = ch}

\* C13 (the claim as stated): once a poll task has reached a terminal state
\* (stopped, failed, or ended for want of a live chat) its session is not in
\* the registry: no channel stays registered while no poll task runs for it,
\* and a terminal notice of a task leaves its channel free for a new start.
C13_TerminalDeregisters ==
    /\ \A ch \in DOMAIN active_streams : ServingTasks(ch) # {}
    /\ (sent.cmd = "poll" /\ sent.msg \in {"NoLiveChat", "StoppedMonitoring"}) =>
          \A ch \in DOMAIN active_streams :
              \E t \in DOMAIN tasks : tasks[t].ch = ch

\* poll task t leaves line 80 or its sleep and evaluates the loop condition
LivenessCheck(t) ==
    \/ \E page \in SessionPages : task_poll(t, FALSE, page)
    \/ task_poll(t, TRUE, << >>)

\* C14 (the claim as stated): once stop has removed the mapping of a session,
\* the poll task that served it terminates at its next liveness check: it
\* completes at most its current sleep and performs no further fetch,
\* whatever commands the channel has received since the stop, a new start
\* included.
C14_StopTerminates ==
    [][\A t \in DOMAIN tasks :
          (tasks[t].cancelled /\ tasks[t].pc = "sleeping" /\ LivenessCheck(t)) =>
              tasks' = Returned(t)]_vars

\* poll task t passes the loop condition and fetches a page
Fetches(t) ==
    /\ StreamLive(active_streams, tasks[t].ch, tasks[t].video_id)
    /\ LivenessCheck(t)
\* poll task u has fetched a page and its loop condition holds: it goes on
\* with the items of its page or with the next fetch
Polling(u) ==
    /\ tasks[u].pc \in {"sending", "sleeping"}
    /\ StreamLive(active_streams, tasks[u].ch, tasks[u].video_id)

\* C15 (the claim as stated): for each channel at most one poll task runs at
\* any time: a poll task never fetches a page of chat while another poll
\* task started for the same channel is polling too.
C15_OnePollerPerScope ==
    [][\A t, u \in DOMAIN tasks :
          (t # u /\ tasks[t].ch = tasks[u].ch /\ Fetches(t)) => ~Polling(u)]_vars

\* lines 248-252, 330-339, 421-427: the queue that !next, !list and !delete
\* sent in channel ch work on: the globals, whatever ctx.channel is
QueueSeenFrom(ch) == [song_list |-> song_list, played_idx |-> played_idx]

\* a step on the queue made in channel ch: !add, !next or !delete sent there,
\* or a step of a poll task started there
QueueStep(ch) ==
    \/ \E song \in AddArgs : add(ch, song)
    \/ next(ch)
    \/ \E song_id \in 0..(current_idx + 1) : delete_song(ch, song_id)
    \/ \E t \in DOMAIN tasks : tasks[t].ch = ch /\ PollStep(t)

\* C16 (the claim as stated): queues are isolated per channel: an append,
\* advance or delete made in one channel never changes the entries or the
\* playedIndex that the commands of another channel work on.
C16_QueuesIsolated ==
    [][\A ch, other \in Channels :
          (ch # other /\ QueueStep(ch)) =>
              QueueSeenFrom(other)' = QueueSeenFrom(other)]_vars

\* the replies of the commands that fail
Refusals ==
    [start_live_chat |-> {"NotConfigured", "InvalidUrl", "AlreadyMonitoring"},
     stop_live_chat |-> {"NoActiveStream"},
     add |-> {"NoActiveStream", "CommandError"},
     delete |-> {"QueueEmpty", "InvalidId", "NotFound", "CannotDeleteCurrent"}]
Refused(s) == s.cmd \in DOMAIN Refusals /\ s.msg \in Refusals[s.cmd]

\* C17: a command that fails leaves the queue (entries, counter, playedIndex)
\* and the registry unchanged, and starts no poll task: start with an
\* unparseable URL or on a channel that has a session, stop and add without a
\* session, add with an argument that has no "-", delete with a number out of
\* range or the number of the playing entry.
C17_FailureChangesNothing ==
    [][Refused(sent') =>
          UNCHANGED <<song_list, current_idx, played_idx, active_streams, tasks>>]_vars
\* !add with an argument that has no "-" has failed in a channel with a
\* session, on a queue of two with an entry playing
C17_Witness ==
    /\ sent.cmd = "add"
    /\ sent.msg = "CommandError"
    /\ "c1" \in DOMAIN active_streams
    /\ N = 2
    /\ played_idx = 1

\* the steps of the life of a session: !start_live_chat, !stop_live_chat,
\* and the steps of a poll task that start it or end it
Lifecycle(s) ==
    \/ s.cmd \in {"start_live_chat", "stop_live_chat"}
    \/ s.cmd = "poll" /\ s.msg \in {"Monitoring", "NoLiveChat", "FetchError",
                                     "StoppedMonitoring"}

\* C18: the operations of the life of a session never modify the queue:
\* start, stop, and the termination and clean-up of a poll task leave the
\* entries, the counter and playedIndex exactly as they were, so the queue
\* built during one session is intact once that session is stopped and a new
\* one is started.
C18_LifecycleKeepsQueue ==
    [][Lifecycle(sent') => UNCHANGED <<song_list, current_idx, played_idx>>]_vars
\* a new session has been started over a queue of two requests of the chat
\* of an earlier session, the first of them playing
C18_Witness ==
    /\ sent.cmd = "start_live_chat"
    /\ sent.msg = "Starting"
    /\ N = 2
    /\ song_list[1] \in PollEntries
    /\ song_list[2] \in PollEntries
    /\ played_idx = 1
    /\ Len(tasks) = 1
    /\ tasks[1].pc = "created"

\* C19 (the claim as stated): the poll task checks that its session is live
\* before it handles each item: once stop has removed the mapping of its
\* channel, or the channel maps to another video, the task appends no
\* further request, not even for the items left of a page it had fetched.
C19_LivenessPerItem ==
    [][\A t \in DOMAIN tasks :
          (PollStep(t) /\ current_idx' = current_idx + 1) =>
              StreamLive(active_streams, tasks[t].ch, tasks[t].video_id)]_vars

\* poll task t leaves through the clean-up of lines 137-141
Teardown(t) ==
    /\ LivenessCheck(t) \/ task_fail(t)
    /\ tasks' = Returned(t)

\* C20 (the claim as stated): the clean-up of a poll task deregisters only
\* its own session: when the channel has been stopped and started again with
\* another video while the task was suspended, the exit of the task leaves
\* the registry as it is, the new session registered.
C20_TeardownOwnSession ==
    [][\A t \in DOMAIN tasks :
          (/\ Teardown(t)
           /\ tasks[t].ch \in DOMAIN active_streams
           /\ active_streams[tasks[t].ch] # tasks[t].video_id) =>
              active_streams' = active_streams]_vars

(***************************************************************************)
(* The display of the queue, list_song, lines 330-419.  The embed is the   *)
(* sequence of its fields; a field is the notice of an empty queue, the    *)
(* marker of skipped songs, or an entry with its number and its mark       *)
(* (Played, Current, Upcoming for the three prefixes of lines 395-409).    *)
(***************************************************************************)
Min2(a, b) == IF a < b THEN a ELSE b
Max2(a, b) == IF a > b THEN a ELSE b
\* list(range(a, b)) of python
Range(a, b) == IF b <= a THEN << >> ELSE [i \in 1..(b - a) |-> a + i - 1]

\* lines 355-364: the last three played entries, then all the unplayed ones
PlayedAndUnplayed(ci, pi) ==
    (IF pi > 0 THEN Range(Max2(1, pi - 2), pi + 1) ELSE << >>)
    \o (IF pi < ci THEN Range(pi + 1, ci + 1) ELSE << >>)

\* the choice of the entries without the cut of lines 367-376: a long queue
\* is shown with all its unplayed entries
songs_to_show_NoCut(sl, ci, pi) ==
    IF DictLen(sl) <= 24
    THEN Range(1, ci + 1)
    ELSE PlayedAndUnplayed(ci, pi)
\* lines 347-376: the numbers of the entries to show
songs_to_show(sl, ci, pi) ==
    IF DictLen(sl) <= 24
    THEN Range(1, ci + 1)
    ELSE IF Len(PlayedAndUnplayed(ci, pi)) > 23
    THEN IF pi > 0
         THEN <<pi>> \o Range(pi + 1, pi + 1 + Min2(22, ci - pi))
         ELSE Range(1, Min2(23, ci) + 1)
    ELSE PlayedAndUnplayed(ci, pi)

\* line 379
show_gap(sl, pi) == DictLen(sl) > 24 /\ pi > 3

\* lines 384-411: the fields added for song_id.  song_list[song_id] raises
\* KeyError when the queue has no such number.
FieldsOf(song_id, sl, pi) ==
    (IF show_gap(sl, pi) /\ song_id = pi /\ pi > 3
     THEN << [kind |-> "Gap", id |-> 0, skipped |-> pi - 3, entry |-> NoValue] >>
     ELSE << >>)
    \o << [kind |-> IF song_id \notin DOMAIN sl THEN "KeyError"
                    ELSE IF song_id < pi THEN "Played"
                    ELSE IF song_id = pi THEN "Current"
                    ELSE "Upcoming",
           id |-> song_id,
           skipped |-> 0,
           entry |-> IF song_id \in DOMAIN sl THEN sl[song_id] ELSE NoValue] >>

\* lines 382-411: the loop over songs_to_show
RECURSIVE FieldsOfAll(_, _, _)
FieldsOfAll(ids, sl, pi) ==
    IF ids = << >> THEN << >>
    ELSE FieldsOf(Head(ids), sl, pi) \o FieldsOfAll(Tail(ids), sl, pi)

\* lines 339-411: the fields of the embed that !list_song sends
ListFields(sl, ci, pi) ==
    IF DictLen(sl) = 0
    THEN << [kind |-> "QueueStatus", id |-> 0, skipped |-> 0, entry |-> NoValue] >>
    ELSE FieldsOfAll(songs_to_show(sl, ci, pi), sl, pi)

\* lines 330-419: !list_song reads the queue and changes nothing
list_song(ch) ==
    /\ pre' = Snapshot
    /\ Say("list_song", "QueueEmbed", 0)
    /\ QueueUnchanged
    /\ UNCHANGED <<youtube_client, active_streams, tasks>>

(***************************************************************************)
(* ListSpec: !list_song and !next on every queue of up to MaxList entries  *)
(* with every playedIndex, as a session that has been stopped leaves it.   *)
(***************************************************************************)
MaxList == 28      \* entries in the queue
ListEntry(i) ==
    IF i % 2 = 1 THEN RequestOf(ItemA.text, ItemA.author)
    ELSE RequestOf(ItemB.text, ItemB.author)
ListInit ==
    \E n \in 0..MaxList : \E p \in 0..n :
        /\ youtube_client = TRUE
        /\ active_streams = EmptyDict
        /\ song_list = [i \in 1..n |-> ListEntry(i)]
        /\ current_idx = n
        /\ played_idx = p
        /\ tasks = << >>
        /\ sent = [cmd |-> "poll", msg |-> "StoppedMonitoring", arg |-> 0]
        /\ pre = [song_list |-> song_list, current_idx |-> n, played_idx |-> p]
        /\ issued = 1..n
ListNext ==
    \/ \E ch \in QueueChannels : list_song(ch)
    \/ \E ch \in QueueChannels : next(ch)

ListSpec == ListInit /\ [][ListNext]_vars

\* what !list_song shows of the queue as it is
Listed == ListFields(song_list, current_idx, played_idx)
ListedEntries == SelectSeq(Listed, LAMBDA f : f.kind \in {"Played", "Current", "Upcoming"})
ListedGaps == SelectSeq(Listed, LAMBDA f : f.kind = "Gap")

\* C21: in every reachable state of the queue, whatever N and playedIndex,
\* list shows at most 24 entries and at most one marker of skipped songs,
\* never more than 25 fields; the numbers shown are strictly increasing
\* members of 1..N; each is marked Played, Current or Upcoming as it is
\* below, equal to or above playedIndex; every entry is shown when N <= 24;
\* and the playing entry is shown whenever playedIndex > 0.
C21_ListWindow ==
    /\ Len(ListedEntries) <= 24
    /\ Len(ListedGaps) <= 1
    /\ Len(Listed) <= 25
    /\ N > 0 => Len(Listed) = Len(ListedEntries) + Len(ListedGaps)
    /\ \A i \in DOMAIN ListedEntries :
          /\ ListedEntries[i].id \in 1..N
          /\ i > 1 => ListedEntries[i - 1].id < ListedEntries[i].id
          /\ ListedEntries[i].kind =
                (IF ListedEntries[i].id < played_idx THEN "Played"
                 ELSE IF ListedEntries[i].id = played_idx THEN "Current"
                 ELSE "Upcoming")
          /\ ListedEntries[i].entry = song_list[ListedEntries[i].id]
    /\ N <= 24 => {ListedEntries[i].id : i \in DOMAIN ListedEntries} = 1..N
    /\ played_idx > 0 =>
          \E i \in DOMAIN ListedEntries : ListedEntries[i].id = played_idx
\* !list_song has shown a queue of more than 24 entries: the marker of the
\* skipped songs, the playing entry, and upcoming entries up to the limit,
\* some entries of the queue being left out at both ends
C21_Witness ==
    /\ sent.cmd = "list_song"
    /\ N > 24
    /\ played_idx > 3
    /\ Len(ListedGaps) = 1
    /\ Len(ListedEntries) = 23
    /\ ListedEntries[1].id = played_idx
    /\ ListedEntries[23].id < N

====
